---- MODULE Spec2Model ----
(***************************************************************************)
(* FileIdManager (jupyter_server/services/contents/fileidmanager.py): the  *)
(* Files(id BLOB PRIMARY KEY, path TEXT NOT NULL UNIQUE) table behind one  *)
(* sqlite3 connection, and the public calls index, insert, get_id,         *)
(* get_path, move, copy and delete.                                        *)
(*                                                                         *)
(* A Python str is a sequence of one-character strings, so that path       *)
(* normalisation, SQL substr/|| and SQL GLOB are computed character by     *)
(* character.  Paths follow posixpath (the separator is "/").              *)
(***************************************************************************)
EXTENDS Integers, Sequences, FiniteSets, TLC

\* ------------------------------------------------------------------ bounds
\* number of distinct 128-bit identifier values in the model
MaxId == 3
\* largest number of rows of Files
MaxRecords == 3
\* longest path string a call may store
MaxPathLen == 5
\* how many times in a row the caller repeats one index call
MaxRepeat == 3

Ids == 1..MaxId

\* ------------------------------------------------------- strings and paths
Sep == "/"

\* the characters of the model in ASCII order; Ord is the code-point order
\* that a GLOB character range compares by
Alphabet == <<"*", "-", ".", "/", "?", "[", "]", "^", "a", "b", "c">>

Ord(ch) == CHOOSE i \in 1..Len(Alphabet) : Alphabet[i] = ch

\* SQL substr(X, Y) with Y >= 1: the characters of X from position Y on
Substr(s, y) == SubSeq(s, y, Len(s))

\* str.split("/")
RECURSIVE Split(_)
Split(s) ==
  IF \A i \in 1..Len(s) : s[i] # Sep
  THEN <<s>>
  ELSE LET k == CHOOSE i \in 1..Len(s) :
                  s[i] = Sep /\ \A j \in 1..(i - 1) : s[j] # Sep
       IN  <<SubSeq(s, 1, k - 1)>> \o Split(Substr(s, k + 1))

\* "/".join(comps)
RECURSIVE Join(_)
Join(comps) ==
  IF comps = <<>> THEN <<>>
  ELSE IF Len(comps) = 1 THEN comps[1]
  ELSE comps[1] \o <<Sep>> \o Join(Tail(comps))

DotDot == <<".", ".">>

\* posixpath.normpath: POSIX keeps exactly two leading slashes, and folds
\* one, three or more into one
InitialSlashes(p) ==
  IF Len(p) >= 1 /\ p[1] = Sep
  THEN IF Len(p) >= 2 /\ p[2] = Sep /\ ~(Len(p) >= 3 /\ p[3] = Sep)
       THEN 2 ELSE 1
  ELSE 0

\* the loop of posixpath.normpath over the components
RECURSIVE NormComps(_, _, _)
NormComps(comps, acc, init) ==
  IF comps = <<>> THEN acc
  ELSE LET comp == Head(comps)
           rest == Tail(comps)
       IN  IF comp = <<>> \/ comp = <<".">>
           THEN NormComps(rest, acc, init)
           ELSE IF \/ comp # DotDot
                   \/ (init = 0 /\ acc = <<>>)
                   \/ (acc # <<>> /\ acc[Len(acc)] = DotDot)
           THEN NormComps(rest, Append(acc, comp), init)
           ELSE IF acc # <<>>
           THEN NormComps(rest, SubSeq(acc, 1, Len(acc) - 1), init)
           ELSE NormComps(rest, acc, init)

\* variant of normpath: drops one trailing separator and nothing else
normpath_DropOneSlash(p) ==
  IF p = <<>> THEN <<".">>
  ELSE IF Len(p) > 1 /\ p[Len(p)] = Sep THEN SubSeq(p, 1, Len(p) - 1)
  ELSE p

normpath(p) ==
  IF p = <<>> THEN <<".">>
  ELSE LET init   == InitialSlashes(p)
           joined == Join(NormComps(Split(p), <<>>, init))
           full   == [i \in 1..init |-> Sep] \o joined
       IN  IF full = <<>> THEN <<".">> ELSE full

\* posixpath.normcase returns its argument
normcase(p) == p

_normalize_path(path) == normpath(normcase(path))

\* posixpath.join(a, "*")
PathJoinStar(a) ==
  IF a = <<>> \/ a[Len(a)] = Sep THEN a \o <<"*">> ELSE a \o <<Sep, "*">>

\* --------------------------------------------------------------- SQL GLOB
\* the bracket expression of a GLOB pattern, SQLite's patternCompare: pat is
\* the pattern after "[" and a leading "^", c the character to match, first
\* tells whether pat[1] is the first member.  The result is <<closed, seen,
\* rest>>: whether a closing "]" exists, whether c is a member, and the
\* pattern after the "]".
RECURSIVE GlobSet(_, _, _, _, _)
GlobSet(pat, c, first, prior, seen) ==
  IF pat = <<>> THEN <<FALSE, seen, <<>>>>
  ELSE IF pat[1] = "]" /\ ~first THEN <<TRUE, seen, Tail(pat)>>
  ELSE IF /\ pat[1] = "-" /\ ~first
          /\ Len(pat) >= 2 /\ pat[2] # "]"
          /\ prior # ""
  THEN GlobSet(Substr(pat, 3), c, FALSE, "",
               seen \/ (Ord(c) >= Ord(prior) /\ Ord(c) <= Ord(pat[2])))
  ELSE GlobSet(Tail(pat), c, FALSE,
               IF first /\ pat[1] = "]" THEN "" ELSE pat[1],
               seen \/ c = pat[1])

\* X GLOB pat: "*" matches any run, "?" one character, "[...]" one character
\* of the set ("[^...]" one outside it); an unclosed "[" matches nothing
RECURSIVE Glob(_, _)
Glob(pat, s) ==
  IF pat = <<>> THEN s = <<>>
  ELSE IF pat[1] = "*"
  THEN \E k \in 1..(Len(s) + 1) : Glob(Tail(pat), Substr(s, k))
  ELSE IF s = <<>> THEN FALSE
  ELSE IF pat[1] = "?" THEN Glob(Tail(pat), Tail(s))
  ELSE IF pat[1] = "["
  THEN LET invert == Len(pat) >= 2 /\ pat[2] = "^"
           body   == IF invert THEN Substr(pat, 3) ELSE Tail(pat)
           set    == GlobSet(body, s[1], TRUE, "", FALSE)
       IN  /\ set[1]
           /\ set[2] # invert
           /\ Glob(set[3], Tail(s))
  ELSE pat[1] = s[1] /\ Glob(Tail(pat), Tail(s))

\* ---------------------------------------------------------- Python values
\* None, str, uuid.UUID and int values.  A str that spells an identifier
\* carries its spelling: "hex" (32 hex digits, UUID.hex), "dashed" (the
\* canonical str(UUID)), "braces" ("{...}", another spelling uuid.UUID
\* accepts), "bad" (a non-empty string that is no identifier), "empty" ("").
None == [t |-> "None"]

Str(form, n) == [t |-> "str", form |-> form, n |-> n]

UuidObj(n) == [t |-> "UUID", n |-> n]

IntObj(v) == [t |-> "int", n |-> v]

\* a str holding a path
PathStr(p) == [t |-> "str", form |-> "path", s |-> p]

UuidSpellings == {"hex", "dashed", "braces"}

\* Python truth value: None, "" and 0 are false
Truthy(x) ==
  /\ x.t # "None"
  /\ ~(x.t = "str" /\ x.form = "empty")
  /\ ~(x.t = "int" /\ x.n = 0)

\* what a call hands back: the value it returns, or the exception it raises
Return(v) == [exc |-> "", msg |-> "", val |-> v]

Raise(exc, msg) == [exc |-> exc, msg |-> msg, val |-> None]

\* uuid.UUID(x): x.replace(...) needs a str; the stripped string must be 32
\* hexadecimal digits
uuid_UUID(x) ==
  IF x.t = "None" THEN Raise("TypeError", "one of the hex, bytes, bytes_le, fields, or int arguments must be given")
  ELSE IF x.t # "str" THEN Raise("AttributeError", "object has no attribute 'replace'")
  ELSE IF x.form \in UuidSpellings THEN Return(UuidObj(x.n))
  ELSE Raise("ValueError", "badly formed hexadecimal UUID string")

\* UUID.hex and str(UUID)
uuid_hex(u) == Str("hex", u.n)

uuid_str(u) == Str("dashed", u.n)

\* ------------------------------------------------------------ the store
\* A row of Files is [id |-> the hex text, path |-> the path text].  A
\* statement is atomic: it yields the new table, or fails on a uniqueness
\* constraint and leaves the table as it was.
StmtOk(files) == [ok |-> TRUE, msg |-> "", files |-> files]

StmtFail(files, msg) == [ok |-> FALSE, msg |-> msg, files |-> files]

UniquePath == "UNIQUE constraint failed: Files.path"

UniqueId == "UNIQUE constraint failed: Files.id"

\* variant of _insert: a Files table whose path column is not UNIQUE
_insert_NoUniquePath(files, id, path) ==
  IF \E r \in files : r.id = id THEN StmtFail(files, UniqueId)
  ELSE StmtOk(files \cup {[id |-> id, path |-> path]})

\* variant of _insert: INSERT OR REPLACE, which drops the rows in the way
_insert_OrReplace(files, id, path) ==
  StmtOk({r \in files : r.path # path /\ r.id # id}
           \cup {[id |-> id, path |-> path]})

\* variant of _insert: a Files table whose id column is no PRIMARY KEY
_insert_NoPrimaryKey(files, id, path) ==
  IF \E r \in files : r.path = path THEN StmtFail(files, UniquePath)
  ELSE StmtOk(files \cup {[id |-> id, path |-> path]})

\* INSERT INTO Files (id, path) VALUES (?,?)
_insert(files, id, path) ==
  IF \E r \in files : r.path = path THEN StmtFail(files, UniquePath)
  ELSE IF \E r \in files : r.id = id THEN StmtFail(files, UniqueId)
  ELSE StmtOk(files \cup {[id |-> id, path |-> path]})

\* the rows a "WHERE path GLOB ?" selects
GlobRows(files, pat) == {r \in files : Glob(pat, r.path)}

\* ? || substr(path, ?)
Rewritten(prefix, n, path) == prefix \o Substr(path, n)

\* UPDATE Files SET path = ? || substr(path, ?) WHERE path GLOB ?
\* The rows are rewritten one at a time and each new path is checked against
\* the rows as they are at that moment, so the statement fails when the
\* result would hold a path twice, and also when a row's new path is the
\* still unrewritten path of a row visited later.  The visiting order is the
\* query planner's: early tells whether such a row is visited first.
UpdateGlob(files, prefix, n, pat, early) ==
  LET hit     == GlobRows(files, pat)
      new(r)  == IF r \in hit THEN [r EXCEPT !.path = Rewritten(prefix, n, r.path)] ELSE r
      result  == {new(r) : r \in files}
      clash   == \E r1, r2 \in files : r1 # r2 /\ new(r1).path = new(r2).path
      passing == \E r1, r2 \in hit : r1 # r2 /\ new(r1).path = r2.path
  IN  IF clash \/ (passing /\ early) THEN StmtFail(files, UniquePath)
      ELSE StmtOk(result)

\* whether the outcome of the UPDATE depends on the visiting order
OrderMatters(files, prefix, n, pat) ==
  UpdateGlob(files, prefix, n, pat, TRUE) # UpdateGlob(files, prefix, n, pat, FALSE)

\* UPDATE Files SET path = ? WHERE id = ?
UpdateById(files, path, id) ==
  IF \E r1, r2 \in files : r1.id = id /\ r2.id # id /\ r2.path = path
  THEN StmtFail(files, UniquePath)
  ELSE StmtOk({IF r.id = id THEN [r EXCEPT !.path = path] ELSE r : r \in files})

\* INSERT INTO Files (id, path)
\*   SELECT new_uuid(), (? || substr(path, ?)) FROM Files WHERE path GLOB ?
\* ids maps each selected row to the value new_uuid() draws for it
InsertSelect(files, prefix, n, pat, ids) ==
  LET hit    == GlobRows(files, pat)
      new(r) == [id |-> uuid_hex(UuidObj(ids[r])), path |-> Rewritten(prefix, n, r.path)]
      added  == {new(r) : r \in hit}
  IN  IF \/ \E r \in hit, q \in files : new(r).path = q.path
         \/ \E r1, r2 \in hit : r1 # r2 /\ new(r1).path = new(r2).path
      THEN StmtFail(files, UniquePath)
      ELSE IF \/ \E r \in hit, q \in files : new(r).id = q.id
              \/ \E r1, r2 \in hit : r1 # r2 /\ new(r1).id = new(r2).id
      THEN StmtFail(files, UniqueId)
      ELSE StmtOk(files \cup added)

\* DELETE FROM Files WHERE path GLOB ?
DeleteGlob(files, pat) == StmtOk(files \ GlobRows(files, pat))

\* DELETE FROM Files WHERE path = ?
DeletePath(files, path) == StmtOk({r \in files : r.path # path})

\* ------------------------------------------------------- the connection
\* con is [files |-> the table as the connection sees it (its pending writes
\* included), committed |-> the table in the database file].  A method
\* yields the connection after the call and the outcome of the call.
Commit(con) == [files |-> con.files, committed |-> con.files]

Pending(con, files) == [files |-> files, committed |-> con.committed]

Outcome(con, ret) == [con |-> con, ret |-> ret]

\* SELECT id FROM Files WHERE path = ?
get_id(files, path) ==
  LET p    == _normalize_path(path)
      rows == {r \in files : r.path = p}
  IN  IF rows = {} THEN None
      ELSE uuid_str(uuid_UUID((CHOOSE r \in rows : TRUE).id).val)

\* variant of get_path: row[0] without the test for a missing row
get_path_NoRowCheck(files, fid) ==
  LET u == uuid_UUID(fid)
  IN  IF u.exc # "" THEN u
      ELSE LET rows == {r \in files : r.id = uuid_hex(u.val)}
           IN  IF rows = {}
               THEN Raise("TypeError", "'NoneType' object is not subscriptable")
               ELSE Return(PathStr((CHOOSE r \in rows : TRUE).path))

\* SELECT path FROM Files WHERE id = ?
get_path(files, fid) ==
  LET u == uuid_UUID(fid)
  IN  IF u.exc # "" THEN u
      ELSE LET rows == {r \in files : r.id = uuid_hex(u.val)}
           IN  IF rows = {} THEN Return(None)
               ELSE Return(PathStr((CHOOSE r \in rows : TRUE).path))

\* variant of _index: the row holds str(fid) where it should hold fid.hex
_index_StoresStr(files, path, fid) ==
  [stmt |-> _insert(files, uuid_str(fid), path), val |-> uuid_str(fid)]

\* _index: fid is the value uuid.uuid4() draws; returns the statement's
\* outcome and str(fid)
_index(files, path, fid) ==
  [stmt |-> _insert(files, uuid_hex(fid), path), val |-> uuid_str(fid)]

\* variant of index: no lookup of the path before the INSERT
index_NoLookup(con, path, draw) ==
  LET p == _normalize_path(path)
      d == IF draw = None THEN UuidObj(CHOOSE n \in Ids : TRUE) ELSE draw
      r == _index(con.files, p, d)
  IN  IF r.stmt.ok
      THEN Outcome(Commit(Pending(con, r.stmt.files)), Return(r.val))
      ELSE Outcome(Pending(con, r.stmt.files), Raise("IntegrityError", r.stmt.msg))

\* index: draw is the uuid4 value _index would draw
index(con, path, draw) ==
  LET p        == _normalize_path(path)
      existing == get_id(con.files, p)
  IN  IF existing # None THEN Outcome(con, Return(existing))
      ELSE LET r == _index(con.files, p, draw)
           IN  IF r.stmt.ok
               THEN Outcome(Commit(Pending(con, r.stmt.files)), Return(r.val))
               ELSE Outcome(Pending(con, r.stmt.files),
                            Raise("IntegrityError", r.stmt.msg))

\* insert: draw is the uuid4 value drawn when fid is false
insert(con, path, fid, draw) ==
  LET p == _normalize_path(path)
      u == IF ~Truthy(fid) THEN Return(draw)
           ELSE IF fid.t = "str" THEN uuid_UUID(fid)
           ELSE IF fid.t # "UUID" THEN Raise("ValueError", "id must be a valid UUID")
           ELSE Return(fid)
  IN  IF u.exc # "" THEN Outcome(con, u)
      ELSE LET stmt == _insert(con.files, uuid_hex(u.val), p)
           IN  IF stmt.ok
               THEN Outcome(Commit(Pending(con, stmt.files)), Return(uuid_str(u.val)))
               ELSE Outcome(Pending(con, stmt.files),
                            Raise("IntegrityError", stmt.msg))

\* move: the table after the recursive UPDATE (the table itself when the call
\* is not recursive)
MoveRewrite(files, old_path, new_path, recursive, early) ==
  IF recursive
  THEN UpdateGlob(files, new_path, Len(old_path) + 1, PathJoinStar(old_path), early)
  ELSE StmtOk(files)

move(con, old, new, recursive, early, draw) ==
  LET old_path == _normalize_path(old)
      new_path == _normalize_path(new)
      sub      == MoveRewrite(con.files, old_path, new_path, recursive, early)
  IN  IF ~sub.ok THEN Outcome(con, Raise("IntegrityError", sub.msg))
      ELSE LET fid  == get_id(sub.files, old_path)
               stmt == IF fid = None
                       THEN _insert(sub.files, uuid_hex(draw), new_path)
                       ELSE UpdateById(sub.files, new_path, uuid_hex(uuid_UUID(fid).val))
               ret  == IF fid = None THEN uuid_str(draw) ELSE fid
           IN  IF stmt.ok
               THEN Outcome(Commit(Pending(con, stmt.files)), Return(ret))
               ELSE Outcome(Pending(con, stmt.files),
                            Raise("IntegrityError", stmt.msg))

\* copy: the table after the recursive INSERT ... SELECT
CopyRewrite(files, from_path, to_path, recursive, ids) ==
  IF recursive
  THEN InsertSelect(files, to_path, Len(from_path) + 1, PathJoinStar(from_path), ids)
  ELSE StmtOk(files)

\* variant of copy: from_path is not indexed
copy_NoIndexFrom(con, from, to, recursive, ids, draws) ==
  LET from_path == _normalize_path(from)
      to_path   == _normalize_path(to)
      sub       == CopyRewrite(con.files, from_path, to_path, recursive, ids)
  IN  IF ~sub.ok THEN Outcome(con, Raise("IntegrityError", sub.msg))
      ELSE LET r == _index(sub.files, to_path, draws[2])
           IN  IF r.stmt.ok
               THEN Outcome(Commit(Pending(con, r.stmt.files)), Return(r.val))
               ELSE Outcome(Pending(con, r.stmt.files),
                            Raise("IntegrityError", r.stmt.msg))

\* draws are the uuid4 values of self.index(from_path) and of
\* self._index(to_path)
copy(con, from, to, recursive, ids, draws) ==
  LET from_path == _normalize_path(from)
      to_path   == _normalize_path(to)
      sub       == CopyRewrite(con.files, from_path, to_path, recursive, ids)
  IN  IF ~sub.ok THEN Outcome(con, Raise("IntegrityError", sub.msg))
      ELSE LET ix == index(Pending(con, sub.files), from_path, draws[1])
           IN  IF ix.ret.exc # "" THEN ix
               ELSE LET r == _index(ix.con.files, to_path, draws[2])
                    IN  IF r.stmt.ok
                        THEN Outcome(Commit(Pending(ix.con, r.stmt.files)), Return(r.val))
                        ELSE Outcome(Pending(ix.con, r.stmt.files),
                                     Raise("IntegrityError", r.stmt.msg))

\* variant of _cleanup: the connection is closed with its writes pending
_cleanup_NoCommit(con) == Pending(con, con.committed)

\* _cleanup: commit, then close; what a closed connection leaves is the
\* committed table
_cleanup(con) == Commit(con)

\* sqlite3.connect(db_path) on an existing file, CREATE TABLE IF NOT EXISTS,
\* CREATE INDEX IF NOT EXISTS, commit: the new connection sees the committed
\* rows
connect(db) == [files |-> db, committed |-> db]

delete(con, path, recursive) ==
  LET p    == _normalize_path(path)
      sub  == IF recursive THEN DeleteGlob(con.files, PathJoinStar(p)) ELSE StmtOk(con.files)
      stmt == DeletePath(sub.files, p)
  IN  Outcome(Commit(Pending(con, stmt.files)), Return(None))

\* ------------------------------------------------------------ the inputs
\* the path arguments of the calls: "", "/", "a", "a/", "a/b", "c", "[a]"
\* and "[a]/b"
Paths ==
  { <<>>, <<"/">>, <<"a">>, <<"a", "/">>, <<"a", "/", "b">>, <<"c">>,
    <<"[", "a", "]">>, <<"[", "a", "]", "/", "b">> }

\* the path arguments of insert: "a", "a/" and "c"
InsertPaths == { <<"a">>, <<"a", "/">>, <<"c">> }

\* the new_path and to_path arguments: "c", "a" and ""
Targets == { <<"c">>, <<"a">>, <<>> }

\* the old_path and from_path arguments: the paths above and "?", a path
\* that is a GLOB wildcard
Sources == Paths \cup { <<"?">> }

\* the fid arguments: None, "", a malformed string, 0, 5, and every
\* identifier as a UUID value and in each spelling
Fids ==
  {None, Str("empty", 0), Str("bad", 0), IntObj(0), IntObj(5)}
    \cup {Str(f, n) : f \in UuidSpellings, n \in Ids}
    \cup {UuidObj(n) : n \in Ids}

\* ------------------------------------------------- two managers, one file
\* Each manager has its own sqlite3 connection (default journal mode, legacy
\* transaction control).  A connection is in a transaction from the BEGIN
\* that sqlite3 issues before its first INSERT, UPDATE or DELETE until its
\* commit, and holds one of the file locks:
\*   "none"      no lock: a SELECT outside a transaction locks the file for
\*               the statement only,
\*   "shared"    it has read inside its transaction,
\*   "reserved"  it has executed a writing statement; its writes are pending,
\*   "pending"   its commit has timed out waiting for a reader.
Managers == {1, 2}

Other(m) == 3 - m

Writing == {"reserved", "pending"}

\* no call has just ended: the caller is about to make its next call
NoCall == [op |-> ""]

\* a manager after __init__: pc is the statement its call executes next ("",
\* when no call is running), fid what the call is to return, files the table
\* with the connection's pending writes, overlap whether the call is an
\* index call that ran while an index call of the other manager did
Idle ==
  [call |-> NoCall, pc |-> "", ret |-> Return(None), fid |-> None,
   txn |-> FALSE, lock |-> "none", files |-> {}, overlap |-> FALSE]

\* -------------------------------------------------------------- the state
VARIABLES
  Files,      \* the table as the manager's connection sees it
  committed,  \* the table as committed to the database file
  pre,        \* Files when the call was made
  call,       \* the call that has just returned or raised, and its arguments
  ret,        \* what that call returned or raised
  held,       \* an identifier the caller keeps from an index or insert call
  mgr         \* two managers, each on its own connection to one file

vars == <<Files, committed, pre, call, ret, held, mgr>>

Con == [files |-> Files, committed |-> committed]

\* __init__ on a new database file: the table exists and is empty
Init ==
  /\ Files = {}
  /\ committed = {}
  /\ pre = {}
  /\ call = NoCall
  /\ ret = Return(None)
  /\ held = None
  /\ mgr = [m \in Managers |-> Idle]

\* uuid.uuid4() and new_uuid() draw a value no row holds
UnusedIn(universe) == universe \ {r.id.n : r \in Files \cup committed}

Unused == UnusedIn(Ids)

\* the values a uuid4() call may draw, when the call is made at all
Draw(needed, free) == IF needed THEN {UuidObj(n) : n \in free} ELSE {None}

\* the state after a call, within the bounds of the model
StepWithin(cap, c, out) ==
  /\ Cardinality(out.con.files) <= cap
  /\ \A r \in out.con.files : Len(r.path) <= MaxPathLen
  /\ pre' = Files
  /\ Files' = out.con.files
  /\ committed' = out.con.committed
  /\ call' = c
  /\ ret' = out.ret
  /\ UNCHANGED <<held, mgr>>

Step(c, out) == StepWithin(MaxRecords, c, out)

\* ------------------------------------------------------------- the calls
\* index(path), leaving at most cap rows, uuid4 drawing from universe
IndexWithin(cap, universe) ==
  /\ call = NoCall
  /\ \E path \in Paths :
    \E draw \in Draw(get_id(Files, _normalize_path(path)) = None, UnusedIn(universe)) :
      StepWithin(cap, [op |-> "index", path |-> path, nth |-> 1, first |-> None],
                 index(Con, path, draw))

Index == IndexWithin(MaxRecords, Ids)

\* index(path) has just returned and the caller makes the same call again
IndexAgain ==
  /\ call.op = "index"
  /\ ret.exc = ""
  /\ call.nth < MaxRepeat
  /\ \E draw \in Draw(get_id(Files, _normalize_path(call.path)) = None, Unused) :
       LET out == index(Con, call.path, draw)
       IN  /\ Cardinality(out.con.files) <= MaxRecords
           /\ pre' = Files
           /\ Files' = out.con.files
           /\ committed' = out.con.committed
           /\ call' = [call EXCEPT !.nth = @ + 1,
                                   !.first = IF call.nth = 1 THEN ret.val ELSE @]
           /\ ret' = out.ret
           /\ UNCHANGED <<held, mgr>>

Insert ==
  /\ call = NoCall
  /\ \E path \in InsertPaths, fid \in Fids :
    \E draw \in Draw(~Truthy(fid), Unused) :
      Step([op |-> "insert", path |-> path, fid |-> fid],
           insert(Con, path, fid, draw))

GetId ==
  /\ call = NoCall
  /\ \E path \in Paths :
    Step([op |-> "get_id", path |-> path],
         Outcome(Con, Return(get_id(Files, path))))

GetPath ==
  /\ call = NoCall
  /\ \E fid \in Fids :
    Step([op |-> "get_path", fid |-> fid], Outcome(Con, get_path(Files, fid)))

Move ==
  /\ call = NoCall
  /\ \E old \in Sources, new \in Targets, recursive \in BOOLEAN :
    LET old_path == _normalize_path(old)
        new_path == _normalize_path(new)
        pat      == PathJoinStar(old_path)
    IN  \E early \in IF recursive /\ OrderMatters(Files, new_path, Len(old_path) + 1, pat)
                     THEN BOOLEAN ELSE {FALSE} :
          LET sub == MoveRewrite(Files, old_path, new_path, recursive, early)
          IN  \E draw \in Draw(sub.ok /\ get_id(sub.files, old_path) = None, Unused) :
                Step([op |-> "move", path |-> old, new |-> new, recursive |-> recursive],
                     move(Con, old, new, recursive, early, draw))

\* copy(from, to, recursive), leaving at most cap rows, new_uuid and uuid4
\* drawing from universe
CopyWithin(cap, universe) ==
  /\ call = NoCall
  /\ \E from \in Sources, to \in Targets, recursive \in BOOLEAN :
    LET from_path == _normalize_path(from)
        to_path   == _normalize_path(to)
        hit       == IF recursive THEN GlobRows(Files, PathJoinStar(from_path)) ELSE {}
        free      == UnusedIn(universe)
    IN  \E ids \in [hit -> free] :
          /\ \A r1, r2 \in hit : r1 # r2 => ids[r1] # ids[r2]
          /\ LET free1 == free \ {ids[r] : r \in hit}
                 sub   == CopyRewrite(Files, from_path, to_path, recursive, ids)
             IN  \E d1 \in Draw(sub.ok /\ get_id(sub.files, from_path) = None, free1) :
                   \E d2 \in Draw(sub.ok, free1 \ (IF d1 = None THEN {} ELSE {d1.n})) :
                     StepWithin(cap,
                                [op |-> "copy", path |-> from, new |-> to, recursive |-> recursive],
                                copy(Con, from, to, recursive, ids, <<d1, d2>>))

Copy == CopyWithin(MaxRecords, Ids)

Delete ==
  /\ call = NoCall
  /\ \E path \in Paths, recursive \in BOOLEAN :
    Step([op |-> "delete", path |-> path, recursive |-> recursive],
         delete(Con, path, recursive))

\* the row of files whose id is the identifier string fid spells
RowsOf(files, fid) == {r \in files : r.id = uuid_hex(uuid_UUID(fid).val)}

\* the caller has taken the outcome of the call and goes on; it drops an
\* identifier whose row is gone
Returned ==
  /\ call # NoCall
  /\ call.op # "_cleanup"
  /\ call' = NoCall
  /\ ret' = Return(None)
  /\ pre' = Files
  /\ held' = IF held # None /\ RowsOf(Files, held) # {} THEN held ELSE None
  /\ UNCHANGED <<Files, committed, mgr>>

\* the caller keeps the identifier that index or insert has just returned
Keep ==
  /\ call # NoCall
  /\ call.op \in {"index", "insert"}
  /\ ret.exc = ""
  /\ held # ret.val
  /\ held' = ret.val
  /\ UNCHANGED <<Files, committed, pre, call, ret, mgr>>

Next ==
  \/ Index
  \/ IndexAgain
  \/ Insert
  \/ GetId
  \/ GetPath
  \/ Move
  \/ Copy
  \/ Delete
  \/ Returned

Spec == Init /\ [][Next]_vars

\* the same calls, with a caller that follows one identifier
NextHeld == Next \/ Keep

SpecHeld == Init /\ [][NextHeld]_vars

\* a caller that indexes a few paths and copies them: a recursive copy of a
\* path with a row under it leaves four rows (the row, its copy, from_path
\* and to_path), one more than MaxRecords, with one more identifier
TreeIds == 1..(MaxId + 1)

IndexTree == IndexWithin(MaxRecords - 1, TreeIds)

CopyTree == CopyWithin(MaxRecords + 1, TreeIds)

NextTree ==
  \/ IndexTree
  \/ CopyTree
  \/ Returned

SpecTree == Init /\ [][NextTree]_vars

\* teardown: the caller makes no further call on this manager; dirty tells
\* whether writes were pending when _cleanup was called
Cleanup ==
  /\ call = NoCall
  /\ LET con == _cleanup(Con)
     IN  /\ Files' = con.files
         /\ committed' = con.committed
  /\ pre' = Files
  /\ call' = [op |-> "_cleanup", dirty |-> Files # committed]
  /\ ret' = Return(None)
  /\ UNCHANGED <<held, mgr>>

\* after teardown a new manager is constructed on the same file
Construct ==
  /\ call.op = "_cleanup"
  /\ LET con == connect(committed)
     IN  /\ Files' = con.files
         /\ committed' = con.committed
  /\ call' = [op |-> "__init__", dirty |-> call.dirty]
  /\ ret' = Return(None)
  /\ UNCHANGED <<pre, held, mgr>>

\* a manager that is used, torn down and constructed again
NextLife ==
  \/ Index
  \/ Move
  \/ Copy
  \/ Delete
  \/ Returned
  \/ Cleanup
  \/ Construct

SpecLife == Init /\ [][NextLife]_vars

\* a caller that normalizes path strings itself, once and again on the
\* result, next to a manager that holds a few rows
PathChars == {".", "/", "a"}

\* every string of at most MaxPathLen characters of PathChars
PathStrings == UNION {[1..n -> PathChars] : n \in 0..MaxPathLen}

Normalize ==
  /\ call = NoCall
  /\ \E p \in PathStrings :
       /\ call' = [op |-> "_normalize_path", path |-> p, nth |-> 1]
       /\ ret' = Return(PathStr(_normalize_path(p)))
  /\ pre' = Files
  /\ UNCHANGED <<Files, committed, held, mgr>>

\* the caller normalizes what _normalize_path has just returned
NormalizeAgain ==
  /\ call.op = "_normalize_path"
  /\ call.nth < MaxRepeat
  /\ call' = [call EXCEPT !.path = ret.val.s, !.nth = @ + 1]
  /\ ret' = Return(PathStr(_normalize_path(ret.val.s)))
  /\ UNCHANGED <<Files, committed, pre, held, mgr>>

\* index(path) while the manager holds fewer than MaxRecords - 2 rows
IndexFew == IndexWithin(MaxRecords - 2, 1..(MaxRecords - 2))

NextNorm ==
  \/ Normalize
  \/ NormalizeAgain
  \/ IndexFew
  \/ Returned

SpecNorm == Init /\ [][NextNorm]_vars

\* ------------------------------------- two managers, statement by statement
\* the identifiers and the number of rows of the two managers
TwoIds == 1..(MaxId - 1)

TwoRecords == MaxRecords - 1

\* their calls: index of "a" or "c", insert of "a/b" with and without an
\* identifier, move of "a" to "c", recursive or not, and the recursive copy
\* of "a" to "c" and delete of "a"
TwoCalls ==
  {[op |-> "index", path |-> p, new |-> <<>>, recursive |-> FALSE, fid |-> None] :
     p \in {<<"a">>, <<"c">>}}
  \cup {[op |-> "insert", path |-> <<"a", "/", "b">>, new |-> <<>>, recursive |-> FALSE,
          fid |-> f] : f \in {None, UuidObj(1)}}
  \cup {[op |-> "move", path |-> <<"a">>, new |-> <<"c">>, recursive |-> r, fid |-> None] :
          r \in BOOLEAN}
  \cup {[op |-> o, path |-> <<"a">>, new |-> <<"c">>, recursive |-> TRUE, fid |-> None] :
          o \in {"copy", "delete"}}

\* the statements of a call, by the place in the method: the recursive
\* UPDATE, INSERT ... SELECT or DELETE ... GLOB ("rewrite"), the SELECT of
\* get_id, the INSERT of _index (for from_path inside copy: "_index_from"),
\* the INSERT of insert, the INSERT or UPDATE of move ("put"), the DELETE of
\* delete, and con.commit() (inside copy's index(from_path): "commit_from")
Writes == {"rewrite", "_index", "_index_from", "insert", "put", "delete"}

Commits == {"commit", "commit_from"}

\* the first statement of a call
First(c) ==
  IF c.op = "index" THEN "get_id"
  ELSE IF c.op = "insert" THEN "insert"
  ELSE IF c.recursive THEN "rewrite"
  ELSE IF c.op = "delete" THEN "delete"
  ELSE "get_id"

\* the statement after a writing statement that succeeded
AfterWrite(c, pc) ==
  IF pc = "rewrite" THEN (IF c.op = "delete" THEN "delete" ELSE "get_id")
  ELSE IF pc = "_index_from" THEN "commit_from"
  ELSE "commit"

\* the table as the connection of m reads it: its own pending writes once it
\* has written, the file otherwise
View(m) == IF mgr[m].lock \in Writing THEN mgr[m].files ELSE committed

\* variant of Grants: a file without locking
Grants_NoLocking(other, wanted) == TRUE

\* whether the file grants the lock wanted while the other connection holds
\* the lock other: no new reader while a commit is pending, one writer at a
\* time, and the exclusive lock of a commit only when no one else holds a lock
Grants(other, wanted) ==
  IF wanted = "shared" THEN other # "pending"
  ELSE IF wanted = "reserved" THEN other \notin Writing
  ELSE other = "none"

\* a SELECT needs the shared lock
CanRead(m) == mgr[m].lock # "none" \/ Grants(mgr[Other(m)].lock, "shared")

\* a writing statement needs the reserved lock
CanWrite(m) == mgr[m].lock \in Writing \/ Grants(mgr[Other(m)].lock, "reserved")

\* the commit of a writer needs the exclusive lock
CanCommit(m) == mgr[m].lock \notin Writing \/ Grants(mgr[Other(m)].lock, "exclusive")

\* uuid4 and new_uuid draw a value no row holds
FreeIds == TwoIds \ {r.id.n : r \in committed \cup mgr[1].files \cup mgr[2].files}

\* the writing statement m executes next and the value the call keeps from it
Statement(m, early, ids, draw) ==
  LET s    == mgr[m]
      c    == s.call
      view == View(m)
      path == _normalize_path(c.path)
      new  == _normalize_path(c.new)
  IN  CASE s.pc = "rewrite" /\ c.op = "move" ->
             [stmt |-> MoveRewrite(view, path, new, TRUE, early), val |-> None]
        [] s.pc = "rewrite" /\ c.op = "copy" ->
             [stmt |-> CopyRewrite(view, path, new, TRUE, ids), val |-> None]
        [] s.pc = "rewrite" /\ c.op = "delete" ->
             [stmt |-> DeleteGlob(view, PathJoinStar(path)), val |-> None]
        [] s.pc = "_index_from" -> _index(view, path, draw)
        [] s.pc = "_index" -> _index(view, IF c.op = "copy" THEN new ELSE path, draw)
        [] s.pc = "insert" ->
             LET u == IF Truthy(c.fid) THEN c.fid ELSE draw
             IN  [stmt |-> _insert(view, uuid_hex(u), path), val |-> uuid_str(u)]
        [] s.pc = "put" ->
             IF s.fid = None
             THEN [stmt |-> _insert(view, uuid_hex(draw), new), val |-> uuid_str(draw)]
             ELSE [stmt |-> UpdateById(view, new, uuid_hex(uuid_UUID(s.fid).val)),
                   val |-> s.fid]
        [] s.pc = "delete" -> [stmt |-> DeletePath(view, path), val |-> None]

\* m is in the middle of an index call
Racing(m) == mgr[m].call.op = "index" /\ mgr[m].pc # ""

\* a manager whose last call has ended makes its next call
Invoke ==
  \E m \in Managers, c \in TwoCalls :
    /\ mgr[m].pc = ""
    /\ mgr' = [mgr EXCEPT
                 ![m].call = [op |-> c.op, path |-> c.path, new |-> c.new,
                              recursive |-> c.recursive, fid |-> c.fid,
                              unindexed |-> /\ c.op = "index"
                                            /\ \A r \in committed :
                                                 r.path # _normalize_path(c.path)],
                 ![m].pc = First(c),
                 ![m].ret = Return(None),
                 ![m].fid = None,
                 ![m].overlap = c.op = "index" /\ Racing(Other(m)),
                 ![Other(m)].overlap = @ \/ (c.op = "index" /\ Racing(Other(m)))]
    /\ UNCHANGED <<Files, committed, pre, call, ret, held>>

\* SELECT id FROM Files WHERE path = ? in index (also inside copy) and move
Select ==
  \E m \in Managers :
    LET s     == mgr[m]
        found == get_id(View(m), s.call.path)
        ends  == s.call.op = "index" /\ found # None
    IN  /\ s.pc = "get_id"
        /\ CanRead(m)
        /\ mgr' = [mgr EXCEPT
                     ![m].lock = IF @ = "none" /\ s.txn THEN "shared" ELSE @,
                     ![m].fid = IF ends THEN None ELSE found,
                     ![m].ret = IF ends THEN Return(found) ELSE @,
                     ![m].pc = IF ends THEN ""
                               ELSE IF s.call.op = "move" THEN "put"
                               ELSE IF found # None THEN "_index"
                               ELSE IF s.call.op = "copy" THEN "_index_from"
                               ELSE "_index"]
        /\ UNCHANGED <<Files, committed, pre, call, ret, held>>

\* an INSERT, UPDATE or DELETE: sqlite3 begins a transaction when none is
\* open, the statement takes the reserved lock and writes to the pending
\* table, or fails on a constraint and the call raises
Execute ==
  \E m \in Managers :
    LET s    == mgr[m]
        c    == s.call
        view == View(m)
        path == _normalize_path(c.path)
        new  == _normalize_path(c.new)
        pat  == PathJoinStar(path)
        hit  == IF s.pc = "rewrite" /\ c.op = "copy" THEN GlobRows(view, pat) ELSE {}
    IN  /\ s.pc \in Writes
        /\ CanWrite(m)
        /\ \E early \in IF /\ s.pc = "rewrite"
                           /\ c.op = "move"
                           /\ OrderMatters(view, new, Len(path) + 1, pat)
                        THEN BOOLEAN ELSE {FALSE} :
           \E ids \in [hit -> FreeIds] :
             /\ \A r1, r2 \in hit : r1 # r2 => ids[r1] # ids[r2]
             /\ \E draw \in Draw(\/ s.pc \in {"_index", "_index_from"}
                                 \/ s.pc = "insert" /\ ~Truthy(c.fid)
                                 \/ s.pc = "put" /\ s.fid = None,
                                 FreeIds \ {ids[r] : r \in hit}) :
                  LET r == Statement(m, early, ids, draw)
                  IN  /\ Cardinality(r.stmt.files) <= TwoRecords
                      /\ mgr' = [mgr EXCEPT
                                   ![m].txn = TRUE,
                                   ![m].lock = IF @ = "pending" THEN @ ELSE "reserved",
                                   ![m].files = r.stmt.files,
                                   ![m].fid = IF ~r.stmt.ok THEN None
                                              ELSE IF r.val # None THEN r.val ELSE @,
                                   ![m].ret = IF r.stmt.ok THEN @
                                              ELSE Raise("IntegrityError", r.stmt.msg),
                                   ![m].pc = IF r.stmt.ok THEN AfterWrite(c, s.pc) ELSE ""]
        /\ UNCHANGED <<Files, committed, pre, call, ret, held>>

\* con.commit(): the pending table becomes the file and the locks are dropped
CommitStep ==
  \E m \in Managers :
    LET s == mgr[m]
    IN  /\ s.pc \in Commits
        /\ CanCommit(m)
        /\ committed' = IF s.lock \in Writing THEN s.files ELSE committed
        /\ mgr' = [mgr EXCEPT
                     ![m].txn = FALSE,
                     ![m].lock = "none",
                     ![m].files = {},
                     ![m].fid = IF s.pc = "commit" THEN None ELSE @,
                     ![m].ret = IF s.pc = "commit" THEN Return(s.fid) ELSE @,
                     ![m].pc = IF s.pc = "commit" THEN "" ELSE "_index"]
        /\ UNCHANGED <<Files, pre, call, ret, held>>

\* the lock a statement needs is held by the other connection until the
\* timeout: the statement raises OperationalError and the call ends; a
\* commit that timed out keeps the pending lock
Busy ==
  \E m \in Managers :
    LET s == mgr[m]
    IN  /\ \/ s.pc = "get_id" /\ ~CanRead(m)
           \/ s.pc \in Writes /\ ~CanWrite(m)
           \/ s.pc \in Commits /\ ~CanCommit(m)
        /\ mgr' = [mgr EXCEPT
                     ![m].txn = @ \/ s.pc \in Writes,
                     ![m].lock = IF s.pc \in Commits THEN "pending" ELSE @,
                     ![m].fid = None,
                     ![m].ret = Raise("OperationalError", "database is locked"),
                     ![m].pc = ""]
        /\ UNCHANGED <<Files, committed, pre, call, ret, held>>

NextTwo ==
  \/ Invoke
  \/ Select
  \/ Execute
  \/ CommitStep
  \/ Busy

SpecTwo == Init /\ [][NextTwo]_vars

\* ------------------------------------------------------------ the claims
HasPath(files, p) == \E r \in files : r.path = p

\* a str that spells a 128-bit identifier
WellFormed(fid) == fid.t = "str" /\ fid.form \in UuidSpellings

OldPath == _normalize_path(call.path)

NewPath == _normalize_path(call.new)

\* dir followed by the separator is a proper prefix of p
IsUnder(dir, p) ==
  LET base == IF dir[Len(dir)] = Sep THEN dir ELSE dir \o <<Sep>>
  IN  Len(p) > Len(base) /\ SubSeq(p, 1, Len(base)) = base

\* C1: between calls no two rows of Files have the same path and no two
\* have the same identifier, in the connection's view and in the committed
\* table, whatever calls succeeded or failed before.
C1_Bijection ==
  \A table \in {Files, committed} :
    \A r1, r2 \in table : (r1.path = r2.path \/ r1.id = r2.id) => r1 = r2

\* a recursive call has failed half way: its rewritten rows are pending
C1_Witness ==
  /\ ret.exc = "IntegrityError"
  /\ Files # committed
  /\ Cardinality(Files) >= 2

\* C2: an identifier returned by index or insert keeps exactly one row
\* through every index, insert, move and copy call, and a delete removes it
\* only when it deletes its path, or recursively deletes an ancestor of it.
C2_Stability ==
  (held # None /\ RowsOf(pre, held) # {}) =>
    /\ call.op \in {"index", "insert", "move", "copy"} =>
         Cardinality(RowsOf(Files, held)) = 1
    /\ (call.op = "delete" /\ RowsOf(Files, held) = {}) =>
         \A r \in RowsOf(pre, held) :
           \/ r.path = OldPath
           \/ call.recursive /\ IsUnder(OldPath, r.path)

\* the part of C2 about index, insert, move and copy alone
C2_KeepsIdentifier ==
  (held # None /\ RowsOf(pre, held) # {} /\ call.op # "delete") =>
    Cardinality(RowsOf(Files, held)) = 1

\* C3: index(p) made twice and three times in a row returns what the first
\* call returned and leaves the rows as they were.
C3_IndexIdempotent ==
  call.op = "index" =>
    /\ ret.exc = ""
    /\ ret.val.t = "str"
    /\ call.nth >= 2 => (ret.val = call.first /\ Files = pre)

C3_Witness ==
  /\ call.op = "index"
  /\ call.nth = 3
  /\ call.path # OldPath
  /\ Cardinality(Files) >= 2

\* C4: index(p) on a path without a row returns, adds the one row
\* (normalize(p), fresh identifier), returns that identifier, and leaves
\* every other row as it was.
C4_IndexCreates ==
  (call.op = "index" /\ ~HasPath(pre, OldPath)) =>
    /\ ret.exc = ""
    /\ \E n \in Ids :
         /\ ret.val = Str("dashed", n)
         /\ \A r \in pre : r.id # Str("hex", n)
         /\ Files = pre \cup {[id |-> Str("hex", n), path |-> OldPath]}
         /\ Cardinality(Files) = Cardinality(pre) + 1

C4_Witness ==
  /\ call.op = "index"
  /\ ~HasPath(pre, OldPath)
  /\ pre # {}
  /\ call.path # OldPath

\* C5: an identifier i returned by index or insert, while its row exists,
\* has get_path(i) a path and get_id(get_path(i)) = i; and every path p with
\* a row has get_path(get_id(p)) = normalize(p).
C5_RoundTrip ==
  /\ (held # None /\ RowsOf(Files, held) # {}) =>
       LET got == get_path(Files, held)
       IN  /\ got.exc = ""
           /\ got.val.t = "str"
           /\ get_id(Files, got.val.s) = held
  /\ \A p \in Paths :
       get_id(Files, p) # None =>
         get_path(Files, get_id(Files, p)) = Return(PathStr(_normalize_path(p)))

C7_InvalidIdentifier ==
  /\ (call.op = "insert" /\ call.fid # None
        /\ ~WellFormed(call.fid) /\ call.fid.t # "UUID") =>
       (ret.exc # "" /\ Files = pre)
  /\ (call.op = "get_path" /\ ~WellFormed(call.fid) /\ call.fid.t # "UUID") =>
       (ret.exc # "" /\ Files = pre)

C9_Move ==
  (call.op = "move" /\ HasPath(pre, OldPath) /\ ~HasPath(pre, NewPath)) =>
    LET i == get_id(pre, OldPath)
    IN  /\ ret = Return(i)
        /\ get_path(Files, i) = Return(PathStr(NewPath))
        /\ get_id(Files, NewPath) = i
        /\ get_id(Files, OldPath) = None
        /\ call.recursive =>
             \A r \in pre : IsUnder(OldPath, r.path) =>
               \E q \in Files : q.id = r.id

\* C10: after move(old, new, recursive=True) has returned, every row whose
\* path was old + "/" + s has the path new + "/" + s and its identifier.
C10_RecursiveMove ==
  (call.op = "move" /\ call.recursive /\ ret.exc = "") =>
    \A r \in pre :
      LET n == Len(OldPath) + 1
      IN  (Len(r.path) > n /\ SubSeq(r.path, 1, n) = OldPath \o <<Sep>>) =>
            [id |-> r.id, path |-> NewPath \o <<Sep>> \o Substr(r.path, n + 1)] \in Files

\* C11: a move that has returned changed only the row of old and, when
\* recursive, the rows whose path is old followed by the separator and more;
\* every other row is still there with its path and identifier.
C11_MoveFrame ==
  (call.op = "move" /\ ret.exc = "") =>
    \A r \in pre :
      (r.path # OldPath /\ ~(call.recursive /\ IsUnder(OldPath, r.path))) =>
        r \in Files

\* the part of C11 about recursive=False alone
C11_PlainMoveFrame ==
  (call.op = "move" /\ ret.exc = "" /\ ~call.recursive) =>
    \A r \in pre : r.path # OldPath => r \in Files

\* C12: move(old, new) with no row for old returns the identifier of new,
\* which it creates when new has no row and finds when new has one (as after
\* a first move(old, new)); a move that returns, returns get_id(new) as it is
\* right after the call.
C12_MoveCreates ==
  /\ (call.op = "move" /\ ~HasPath(pre, OldPath)) =>
       /\ ret.exc = ""
       /\ HasPath(pre, NewPath) => ret.val = get_id(pre, NewPath)
  /\ (call.op = "move" /\ ret.exc = "") => ret.val = get_id(Files, NewPath)

\* the part of C12 about the value a move returns
C12_ReturnsNewId ==
  (call.op = "move" /\ ret.exc = "") =>
    (ret.val # None /\ ret.val = get_id(Files, NewPath))

\* the part of C12 about a new path without a row
C12_CreatesWhenNewAbsent ==
  (call.op = "move" /\ ~call.recursive
     /\ ~HasPath(pre, OldPath) /\ ~HasPath(pre, NewPath)) =>
    /\ ret.exc = ""
    /\ \E n \in Ids : /\ ret.val = Str("dashed", n)
                      /\ Files = pre \cup {[id |-> Str("hex", n), path |-> NewPath]}

\* C13: a call that raises leaves no change of its own behind: the rows the
\* later calls see are the rows as they were when the call was made.
C13_Atomic ==
  (call # NoCall /\ ret.exc # "") => Files = pre

\* the part of C13 about the calls made of a single statement
C13_SingleStatementAtomic ==
  (call # NoCall /\ ret.exc # "" /\ ~(call.op \in {"move", "copy"} /\ call.recursive)
     /\ call.op # "copy") =>
    Files = pre

\* the rows of files whose path is dir followed by the separator and more
Descendants(files, dir) == {r \in files : IsUnder(dir, r.path)}

\* C14: a recursive copy that has returned added exactly N+1 rows, N being
\* the number of rows under from_path before the call; the identifiers of the
\* new rows differ from every earlier identifier and from each other, and
\* every earlier row is still there with its path and identifier.
C14_CopyIndependence ==
  (call.op = "copy" /\ call.recursive /\ ret.exc = "") =>
    /\ Cardinality(Files \ pre) = Cardinality(Descendants(pre, OldPath)) + 1
    /\ \A r \in Files \ pre : \A q \in Files : r.id = q.id => r = q
    /\ pre \subseteq Files

\* the part of C14 about the identifiers and the earlier rows
C14_FreshAndKept ==
  (call.op = "copy" /\ ret.exc = "") =>
    /\ \A r \in Files \ pre : \A q \in Files : r.id = q.id => r = q
    /\ pre \subseteq Files

\* C15: after a copy that has returned, from_path has a row (with the
\* identifier it had, if it had one), to_path has a row whose identifier is
\* the value returned, and the two identifiers differ.
C15_CopyEnds ==
  (call.op = "copy" /\ ret.exc = "") =>
    /\ HasPath(Files, OldPath)
    /\ HasPath(pre, OldPath) => get_id(Files, OldPath) = get_id(pre, OldPath)
    /\ ret.val # None
    /\ get_id(Files, NewPath) = ret.val
    /\ get_id(Files, OldPath) # ret.val

\* a recursive copy of a path that had no row and has rows under it
C15_Witness ==
  /\ call.op = "copy"
  /\ ret.exc = ""
  /\ call.recursive
  /\ ~HasPath(pre, OldPath)
  /\ Descendants(pre, OldPath) # {}
  /\ call.path # OldPath

\* C16: after delete(path, recursive=True), get_id(path) is None and so is
\* get_id(d) for every d that had a row with path followed by the separator
\* and more.
C16_DeleteComplete ==
  (call.op = "delete" /\ call.recursive) =>
    /\ ret.exc = ""
    /\ get_id(Files, OldPath) = None
    /\ \A r \in Descendants(pre, OldPath) : get_id(Files, r.path) = None

\* the part of C16 about the path itself
C16_DeletesPath ==
  call.op = "delete" => (ret = Return(None) /\ get_id(Files, OldPath) = None)

\* C17: delete removes only the row of path and, when recursive, the rows
\* whose path is path followed by the separator and more; every other row is
\* still there, no row is added, and the call returns.
C17_DeleteFrame ==
  call.op = "delete" =>
    /\ ret = Return(None)
    /\ Files \subseteq pre
    /\ \A r \in pre :
         (r.path # OldPath /\ ~(call.recursive /\ IsUnder(OldPath, r.path))) =>
           r \in Files

\* the part of C17 about recursive=False alone
C17_PlainDeleteFrame ==
  (call.op = "delete" /\ ~call.recursive) =>
    /\ ret = Return(None)
    /\ Files = {r \in pre : r.path # OldPath}

\* every public call made from the present state with path p in one of its
\* path arguments has the outcome of the same call made with q there; uuid4
\* and new_uuid draw identifiers that no row holds (those above MaxId)
SameCalls(p, q) ==
  LET d1  == UuidObj(MaxId + 1)
      d2  == UuidObj(MaxId + 2)
      ids == [r \in Files |-> MaxId + 2 + r.id.n]
  IN  /\ get_id(Files, p) = get_id(Files, q)
      /\ index(Con, p, d1) = index(Con, q, d1)
      /\ \A fid \in Fids : insert(Con, p, fid, d1) = insert(Con, q, fid, d1)
      /\ \A recursive \in BOOLEAN :
           /\ delete(Con, p, recursive) = delete(Con, q, recursive)
           /\ \A other \in Targets :
                /\ \A early \in BOOLEAN :
                     /\ move(Con, p, other, recursive, early, d1)
                          = move(Con, q, other, recursive, early, d1)
                     /\ move(Con, other, p, recursive, early, d1)
                          = move(Con, other, q, recursive, early, d1)
                /\ copy(Con, p, other, recursive, ids, <<d1, d2>>)
                     = copy(Con, q, other, recursive, ids, <<d1, d2>>)
                /\ copy(Con, other, p, recursive, ids, <<d1, d2>>)
                     = copy(Con, other, q, recursive, ids, <<d1, d2>>)

\* C18: normalizing a normalized path returns it unchanged, and every public
\* call has the same outcome with p as with normalize(p).
C18_NormalizeIdempotent ==
  call.op = "_normalize_path" =>
    /\ call.nth >= 2 => ret.val.s = call.path
    /\ call.nth = 1 => SameCalls(call.path, ret.val.s)

\* the normal form of a path, normalized a second time, next to a row under
\* that path
C18_Witness ==
  /\ call.op = "_normalize_path"
  /\ call.nth = 2
  /\ call.path = <<"a">>
  /\ HasPath(Files, <<"a", "/", "b">>)

\* C19: the path of every row is in normal form, whatever calls were made.
C19_StoredNormalized ==
  \A r \in Files : _normalize_path(r.path) = r.path

\* the part of C19 about the rows written by the calls that are not recursive
C19_PlainCallsNormalized ==
  (call # NoCall /\ call.op \in {"index", "insert", "move", "copy"}
     /\ ~(call.op \in {"move", "copy"} /\ call.recursive)) =>
    \A r \in Files \ pre : _normalize_path(r.path) = r.path

\* the paths a copy of dir to target mirrors: target, the separator, and
\* what follows dir and the separator in the path of a row under dir
Mirrored(files, dir, target) ==
  LET base == IF dir[Len(dir)] = Sep THEN dir ELSE dir \o <<Sep>>
  IN  {target \o <<Sep>> \o Substr(d.path, Len(base) + 1) : d \in Descendants(files, dir)}

\* C20: the rows a copy that has returned has added are the row of to_path,
\* the row of from_path if it had none and, when recursive, one row
\* to_path/s for each row from_path/s there was; nothing else is copied.
C20_CopyMirrors ==
  (call.op = "copy" /\ ret.exc = "") =>
    {r.path : r \in Files \ pre}
      = (IF call.recursive THEN Mirrored(pre, OldPath, NewPath) ELSE {})
          \cup {NewPath}
          \cup (IF HasPath(pre, OldPath) THEN {} ELSE {OldPath})

\* the part of C20 about recursive=False alone
C20_PlainCopy ==
  (call.op = "copy" /\ ret.exc = "" /\ ~call.recursive) =>
    {r.path : r \in Files \ pre}
      = {NewPath} \cup (IF HasPath(pre, OldPath) THEN {} ELSE {OldPath})

\* C21: when a public call returns, the connection has no uncommitted write:
\* the rows it sees are the rows committed to the database file, which are
\* the rows a second manager on the same file sees.
C21_CommitBeforeReturn ==
  (call # NoCall /\ call.op # "_normalize_path" /\ ret.exc = "") =>
    Files = committed

\* the part of C21 about the writes of the returning call itself
C21_OwnWritesCommitted ==
  (call # NoCall /\ call.op # "_normalize_path" /\ ret.exc = "" /\ Files # pre) =>
    Files = committed

\* C22: _cleanup leaves every row the manager saw committed, and a manager
\* constructed on the file afterwards sees exactly those rows, with their
\* paths and identifiers.
C22_Lifecycle ==
  /\ call.op = "_cleanup" => (ret = Return(None) /\ committed = pre)
  /\ call.op = "__init__" => (ret = Return(None) /\ Files = pre /\ committed = pre)

\* a manager constructed after a teardown that found writes pending
C22_Witness ==
  /\ call.op = "__init__"
  /\ call.dirty
  /\ Cardinality(Files) >= 2

\* C23: move(old, new) with rows for both paths, old and new different,
\* fails with the path uniqueness error and leaves every row as it was.
C23_MoveOntoExisting ==
  (call.op = "move" /\ OldPath # NewPath
     /\ HasPath(pre, OldPath) /\ HasPath(pre, NewPath)) =>
    /\ ret.exc = "IntegrityError"
    /\ ret.msg = UniquePath
    /\ Files = pre

\* the part of C23 about recursive=False alone
C23_PlainMoveOntoExisting ==
  (call.op = "move" /\ ~call.recursive /\ OldPath # NewPath
     /\ HasPath(pre, OldPath) /\ HasPath(pre, NewPath)) =>
    /\ ret.exc = "IntegrityError"
    /\ ret.msg = UniquePath
    /\ Files = pre

\* the part of C23 about the failure alone
C23_MoveOntoExistingFails ==
  (call.op = "move" /\ OldPath # NewPath
     /\ HasPath(pre, OldPath) /\ HasPath(pre, NewPath)) =>
    (ret.exc = "IntegrityError" /\ ret.msg = UniquePath)

\* the hex text insert stores for a well-formed identifier argument
HexOf(fid) == IF fid.t = "UUID" THEN uuid_hex(fid) ELSE uuid_hex(uuid_UUID(fid).val)

\* C24: insert(p, id) with no row for p and a row that already has the
\* identifier id fails with the identifier uniqueness error and leaves every
\* row as it was.
C24_InsertDuplicateId ==
  (/\ call.op = "insert"
   /\ WellFormed(call.fid) \/ call.fid.t = "UUID"
   /\ ~HasPath(pre, OldPath)
   /\ \E r \in pre : r.id = HexOf(call.fid)) =>
    /\ ret.exc = "IntegrityError"
    /\ ret.msg = UniqueId
    /\ Files = pre

\* the identifier of a row, spelled with braces, given for another path
C24_Witness ==
  /\ call.op = "insert"
  /\ WellFormed(call.fid)
  /\ call.fid.form = "braces"
  /\ call.path # OldPath
  /\ ~HasPath(pre, OldPath)
  /\ \E r \in pre : r.id = HexOf(call.fid)
  /\ Cardinality(pre) >= 2

\* the index(p) calls of the two managers ran at the same time, p had no row
\* in the file when either was made, and both have ended
BothIndexed ==
  /\ \A m \in Managers :
       /\ mgr[m].call.op = "index"
       /\ mgr[m].pc = ""
       /\ mgr[m].overlap
       /\ mgr[m].call.unindexed
  /\ _normalize_path(mgr[1].call.path) = _normalize_path(mgr[2].call.path)

\* C25: with two managers on their own connections to one file, whatever the
\* order in which the statements of their calls run, no two rows of the
\* committed table have the same path or the same id, and two index(p) calls
\* that run at the same time on a path without a row do not both return with
\* different identifiers.
C25_TwoManagers ==
  /\ \A r1, r2 \in committed : (r1.path = r2.path \/ r1.id = r2.id) => r1 = r2
  /\ (BothIndexed /\ \A m \in Managers : mgr[m].ret.exc = "") =>
       mgr[1].ret.val = mgr[2].ret.val

\* both calls have returned: the second manager's SELECT ran after the first
\* manager's commit
C25_Witness ==
  /\ BothIndexed
  /\ \A m \in Managers : mgr[m].ret.exc = ""
  /\ mgr[1].ret.val # None
  /\ Cardinality(committed) >= 2

====
